---- MODULE Spec2Model ----
(***************************************************************************)
(* FIR filter design by the window method: a model of FilterCalculator     *)
(* (src/filter_calculations.py) and of the FilterDesignApp that drives it  *)
(* (src/filter_interface.py).                                              *)
(*                                                                         *)
(* Number model.                                                           *)
(*  - Scalars (frequencies, attenuations, catalog figures, the order       *)
(*    formulas) are exact rationals [n |-> numerator, d |-> denominator],  *)
(*    d > 0, in lowest terms.  Python's None is the record with d = 0,     *)
(*    float('nan') the record with d = -1.                                 *)
(*    np.pi is the rational 355/113.                                       *)
(*  - Array elements (taps of the ideal response, window samples,          *)
(*    coefficients) are fixed-point integers: the real x is the integer    *)
(*    x * Scale rounded toward zero.  NaN is a value of its own.           *)
(*  - np.sin is a fixed-point rational approximation that keeps what the   *)
(*    real function guarantees: odd, 2*pi periodic, 0 at multiples of pi.  *)
(***************************************************************************)
EXTENDS Integers, Sequences, FiniteSets, TLC

(***************************************************************************)
(* Call by value: the operands of an operation are evaluated once, before  *)
(* the operation is applied to their values.                               *)
(***************************************************************************)
Val1(F(_), a) == CHOOSE v \in {F(x) : x \in {a}} : TRUE

Val2(F(_, _), a, b) == CHOOSE v \in {F(x, y) : x \in {a}, y \in {b}} : TRUE

Val3(F(_, _, _), a, b, c) ==
    CHOOSE v \in {F(x, y, z) : x \in {a}, y \in {b}, z \in {c}} : TRUE

(***************************************************************************)
(* Exact rationals                                                         *)
(***************************************************************************)
Abs(x) == IF x < 0 THEN -x ELSE x

Sign(x) == IF x < 0 THEN -1 ELSE IF x > 0 THEN 1 ELSE 0

RECURSIVE Gcd(_, _)
Gcd(a, b) == Val2(LAMBDA x, y : IF y = 0 THEN x ELSE Gcd(y, x % y), a, b)

\* n/d in lowest terms with a positive denominator (d # 0)
Rat(n, d) ==
    Val2(LAMBDA x, y :
             Val1(LAMBDA g : IF y < 0 THEN [n |-> -(x \div g), d |-> -(y \div g)]
                             ELSE [n |-> x \div g, d |-> y \div g],
                  Gcd(Abs(x), Abs(y))),
         n, d)

R(n) == [n |-> n, d |-> 1]

\* Python's None
None == [n |-> 0, d |-> 0]

IsNone(x) == x.d = 0

RAdd(a, b) == Val2(LAMBDA x, y : Rat(x.n * y.d + y.n * x.d, x.d * y.d), a, b)

RSub(a, b) == Val2(LAMBDA x, y : Rat(x.n * y.d - y.n * x.d, x.d * y.d), a, b)

\* a.n/b.d and b.n/a.d are reduced first, so that the products stay small
RMul(a, b) ==
    Val2(LAMBDA x, y : Val2(LAMBDA p, q : Rat(p.n * q.n, p.d * q.d),
                            Rat(x.n, y.d), Rat(y.n, x.d)),
         a, b)

\* a / b for b # 0
RDiv(a, b) == Val2(LAMBDA x, y : RMul(x, Rat(y.d, y.n)), a, b)

\* float('nan'): the one scalar with a negative denominator
nan == [n |-> 1, d |-> -1]

isnan(x) == x.d < 0

\* every comparison with nan is false
RLt(a, b) == Val2(LAMBDA x, y : ~isnan(x) /\ ~isnan(y) /\ x.n * y.d < y.n * x.d, a, b)

RLe(a, b) == Val2(LAMBDA x, y : ~isnan(x) /\ ~isnan(y) /\ x.n * y.d <= y.n * x.d, a, b)

RGe(a, b) == RLe(b, a)

RGt(a, b) == RLt(b, a)

RIsZero(a) == a.n = 0

\* np.ceil followed by int(): the least integer >= a
RCeil(a) == -((-a.n) \div a.d)

\* np.pi
Pi == Rat(355, 113)

(***************************************************************************)
(* Exceptions and results of a call                                        *)
(***************************************************************************)
Ok(v) == [ok |-> TRUE, val |-> v]

Raise(type, msg) == [ok |-> FALSE, type |-> type, msg |-> msg]

(***************************************************************************)
(* FilterCalculator.__init__: the catalog window_parameters, a dict in     *)
(* insertion order: a sequence of [key, val] items.                        *)
(***************************************************************************)
Catalog ==
    << [key |-> "Retangular",
        val |-> [largura_transicao_normalizada |-> Rat(9, 10),
                 ondulacao_banda_passante_db |-> Rat(7416, 10000),
                 lobulo_principal_lateral_db |-> R(13),
                 atenuacao_banda_rejeicao_db |-> R(21),
                 expressao |-> "w(n) = 1"]],
       [key |-> "Bartlett",
        val |-> [largura_transicao_normalizada |-> Rat(23, 10),
                 ondulacao_banda_passante_db |-> Rat(185, 1000),
                 lobulo_principal_lateral_db |-> R(25),
                 atenuacao_banda_rejeicao_db |-> R(25),
                 expressao |-> "w(n) = 2 - 2n/M"]],
       [key |-> "Hanning",
        val |-> [largura_transicao_normalizada |-> Rat(31, 10),
                 ondulacao_banda_passante_db |-> Rat(546, 10000),
                 lobulo_principal_lateral_db |-> R(31),
                 atenuacao_banda_rejeicao_db |-> R(44),
                 expressao |-> "w(n) = 0.5 + 0.5*cos(2pi n/N)"]],
       [key |-> "Hamming",
        val |-> [largura_transicao_normalizada |-> Rat(33, 10),
                 ondulacao_banda_passante_db |-> Rat(194, 10000),
                 lobulo_principal_lateral_db |-> R(41),
                 atenuacao_banda_rejeicao_db |-> R(53),
                 expressao |-> "w(n) = 0.54 + 0.46*cos(2pi n/N)"]],
       [key |-> "Blackman",
        val |-> [largura_transicao_normalizada |-> Rat(55, 10),
                 ondulacao_banda_passante_db |-> Rat(17, 10000),
                 lobulo_principal_lateral_db |-> R(57),
                 atenuacao_banda_rejeicao_db |-> R(75),
                 expressao |-> "w(n) = 0.42 + 0.5*cos(2pi n/N) + 0.08*cos(4pi n/(N-1))"]],
       [key |-> "Kaiser_beta_4.54",
        val |-> [largura_transicao_normalizada |-> Rat(293, 100),
                 ondulacao_banda_passante_db |-> Rat(274, 10000),
                 lobulo_principal_lateral_db |-> None,
                 atenuacao_banda_rejeicao_db |-> R(50),
                 beta |-> Rat(454, 100),
                 expressao |-> "I0(beta sqrt(1-(2n/(N-1))^2))/I0(beta)"]],
       [key |-> "Kaiser_beta_6.76",
        val |-> [largura_transicao_normalizada |-> Rat(432, 100),
                 ondulacao_banda_passante_db |-> Rat(275, 100000),
                 lobulo_principal_lateral_db |-> None,
                 atenuacao_banda_rejeicao_db |-> R(70),
                 beta |-> Rat(676, 100),
                 expressao |-> "I0(beta sqrt(1-(2n/(N-1))^2))/I0(beta)"]],
       [key |-> "Kaiser_beta_8.96",
        val |-> [largura_transicao_normalizada |-> Rat(571, 100),
                 ondulacao_banda_passante_db |-> Rat(275, 1000000),
                 lobulo_principal_lateral_db |-> None,
                 atenuacao_banda_rejeicao_db |-> R(90),
                 beta |-> Rat(896, 100),
                 expressao |-> "I0(beta sqrt(1-(2n/(N-1))^2))/I0(beta)"]] >>

\* dict operations
DictHas(dict, k) == \E i \in 1..Len(dict) : dict[i].key = k

\* dict[k] for a key that is present
DictGet(dict, k) == dict[CHOOSE i \in 1..Len(dict) : dict[i].key = k].val

(***************************************************************************)
(* Window names of the model.  Besides the catalog keys: names outside the *)
(* catalog, with and without the substring 'Kaiser'.                       *)
(***************************************************************************)
CatalogNames == {"Retangular", "Bartlett", "Hanning", "Hamming", "Blackman",
                 "Kaiser_beta_4.54", "Kaiser_beta_6.76", "Kaiser_beta_8.96"}

ForeignNames == {"Triangular", "Kaiser_beta_5.0", "Kaiser"}

WindowNames == CatalogNames \cup ForeignNames

\* Python's  'Kaiser' in window_name  on the names of the model
HasKaiser(window_name) ==
    window_name \in {"Kaiser_beta_4.54", "Kaiser_beta_6.76", "Kaiser_beta_8.96",
                     "Kaiser_beta_5.0", "Kaiser"}

(***************************************************************************)
(* get_available_windows                                                   *)
(***************************************************************************)
\* one step of the loop over window_parameters.items()
RECURSIVE AvailableFrom(_, _, _)
AvailableFrom(dict, required_attenuation, i) ==
    IF i > Len(dict) THEN << >>
    ELSE LET rest == AvailableFrom(dict, required_attenuation, i + 1)
         IN  IF RGe(dict[i].val.atenuacao_banda_rejeicao_db, required_attenuation)
             THEN << dict[i].key >> \o rest
             ELSE rest

\* variant of get_available_windows: the comparison of line 90 made strict
RECURSIVE AvailableFrom_strict(_, _, _)
AvailableFrom_strict(dict, required_attenuation, i) ==
    IF i > Len(dict) THEN << >>
    ELSE LET rest == AvailableFrom_strict(dict, required_attenuation, i + 1)
         IN  IF RGt(dict[i].val.atenuacao_banda_rejeicao_db, required_attenuation)
             THEN << dict[i].key >> \o rest
             ELSE rest

get_available_windows_strict(dict, required_attenuation) ==
    AvailableFrom_strict(dict, required_attenuation, 1)

get_available_windows(dict, required_attenuation) ==
    AvailableFrom(dict, required_attenuation, 1)

(***************************************************************************)
(* calculate_cutoff_frequencies.  fp_values is a tuple: <<fp>> for the     *)
(* one-edge types, <<fp1, fp2>> for the two-edge types.                    *)
(***************************************************************************)
Half(a) == RDiv(a, R(2))

\* variant of CutoffLowpass: fp = Fs/2 is let through
CutoffLowpass_nyquist_allowed(fp, transition_width, fs) ==
    IF RGt(fp, Half(fs))
    THEN Raise("ValueError", "fp deve ser menor que Fs/2")
    ELSE Ok(<< Half(RAdd(fp, RAdd(fp, transition_width))) >>)

CutoffLowpass(fp, transition_width, fs) ==
    IF RGe(fp, Half(fs))
    THEN Raise("ValueError", "fp deve ser menor que Fs/2")
    ELSE LET fs_freq == RAdd(fp, transition_width)
             fc == Half(RAdd(fp, fs_freq))
         IN  Ok(<< fc >>)

\* variant of CutoffHighpass: a stopband edge of exactly 0 is let through
CutoffHighpass_zero_edge_allowed(fp, transition_width, fs) ==
    IF RGe(fp, Half(fs))
    THEN Raise("ValueError", "fp deve ser menor que Fs/2")
    ELSE IF RLt(RSub(fp, transition_width), R(0))
    THEN Raise("ValueError", "fp - largura_transicao deve ser > 0")
    ELSE Ok(<< Half(RAdd(RSub(fp, transition_width), fp)) >>)

CutoffHighpass(fp, transition_width, fs) ==
    IF RGe(fp, Half(fs))
    THEN Raise("ValueError", "fp deve ser menor que Fs/2")
    ELSE LET fs_freq == RSub(fp, transition_width)
         IN  IF RLe(fs_freq, R(0))
             THEN Raise("ValueError", "fp - largura_transicao deve ser > 0")
             ELSE Ok(<< Half(RAdd(fs_freq, fp)) >>)

\* lines 127-145
CutoffBandpass(fp1, fp2, transition_width, fs) ==
    IF RGe(fp1, fp2)
    THEN Raise("ValueError", "inferior deve ser menor que a superior")
    ELSE IF RGe(fp2, Half(fs))
    THEN Raise("ValueError", "superior deve ser menor que Fs/2")
    ELSE IF RLe(fp1, R(0))
    THEN Raise("ValueError", "inferior deve ser positiva")
    ELSE LET fs1 == RSub(fp1, transition_width)
             fs2 == RAdd(fp2, transition_width)
         IN  IF RLe(fs1, R(0))
             THEN Raise("ValueError", "passa-banda: fp1 - largura_transicao deve ser > 0")
             ELSE IF RGe(fs2, Half(fs))
             THEN Raise("ValueError", "passa-banda: fp2 + largura_transicao deve ser < Fs/2")
             ELSE Ok(<< Half(RAdd(fs1, fp1)), Half(RAdd(fp2, fs2)) >>)

\* variant of CutoffBandstop: the upper stopband edge is not checked
CutoffBandstop_upper_edge_unchecked(fp1, fp2, transition_width, fs) ==
    IF RGe(fp1, fp2)
    THEN Raise("ValueError", "inferior deve ser menor que a superior")
    ELSE IF RGe(fp2, Half(fs))
    THEN Raise("ValueError", "superior deve ser menor que Fs/2")
    ELSE IF RLe(fp1, R(0))
    THEN Raise("ValueError", "inferior deve ser positiva")
    ELSE IF RLe(RSub(fp1, transition_width), R(0))
    THEN Raise("ValueError", "rejeita-banda: fp1 - largura_transicao deve ser > 0")
    ELSE Ok(<< Half(RAdd(RSub(fp1, transition_width), fp1)),
               Half(RAdd(fp2, RAdd(fp2, transition_width))) >>)

\* lines 147-165
CutoffBandstop(fp1, fp2, transition_width, fs) ==
    IF RGe(fp1, fp2)
    THEN Raise("ValueError", "inferior deve ser menor que a superior")
    ELSE IF RGe(fp2, Half(fs))
    THEN Raise("ValueError", "superior deve ser menor que Fs/2")
    ELSE IF RLe(fp1, R(0))
    THEN Raise("ValueError", "inferior deve ser positiva")
    ELSE LET fs1 == RSub(fp1, transition_width)
             fs2 == RAdd(fp2, transition_width)
         IN  IF RLe(fs1, R(0))
             THEN Raise("ValueError", "rejeita-banda: fp1 - largura_transicao deve ser > 0")
             ELSE IF RGe(fs2, Half(fs))
             THEN Raise("ValueError", "rejeita-banda: fp2 + largura_transicao deve ser < Fs/2")
             ELSE Ok(<< Half(RAdd(fs1, fp1)), Half(RAdd(fp2, fs2)) >>)

calculate_cutoff_frequencies(filter_type, fp_values, transition_width, fs) ==
    CASE filter_type = "Passa-Baixa" ->
            CutoffLowpass(fp_values[1], transition_width, fs)
      [] filter_type = "Passa-Alta" ->
            CutoffHighpass(fp_values[1], transition_width, fs)
      [] filter_type = "Passa-Banda" ->
            CutoffBandpass(fp_values[1], fp_values[2], transition_width, fs)
      [] filter_type = "Rejeita-Banda" ->
            CutoffBandstop(fp_values[1], fp_values[2], transition_width, fs)
      [] OTHER -> Ok(<< >>)

(***************************************************************************)
(* calculate_filter_order                                                  *)
(***************************************************************************)
MinOrder == 11

MaxOrder == 10001

Min(a, b) == IF a < b THEN a ELSE b

Max(a, b) == IF a > b THEN a ELSE b

\* Python truth value of the stopband_atten argument
Truthy(x) == ~IsNone(x) /\ ~RIsZero(x)

\* variant of RawOrder: the attenuation formula is chosen by the presence
\* of an attenuation, not by the window's name
RawOrder_by_attenuation(window_name, window_params, delta_f_norm, stopband_atten) ==
    IF RIsZero(delta_f_norm)
    THEN Raise("ZeroDivisionError", "float division by zero")
    ELSE IF Truthy(stopband_atten) \/ HasKaiser(window_name)
    THEN Ok(RCeil(RDiv(RSub(IF Truthy(stopband_atten) THEN stopband_atten
                            ELSE window_params.atenuacao_banda_rejeicao_db, R(8)),
                       RMul(RMul(RMul(Rat(2285, 1000), R(2)), Pi), delta_f_norm))))
    ELSE Ok(RCeil(RDiv(window_params.largura_transicao_normalizada, delta_f_norm)))

\* lines 185-193: the order before it is forced odd and limited
RawOrder(window_name, window_params, delta_f_norm, stopband_atten) ==
    IF HasKaiser(window_name)
    THEN LET A == IF Truthy(stopband_atten) THEN stopband_atten
                  ELSE window_params.atenuacao_banda_rejeicao_db
         IN  IF "beta" \notin DOMAIN window_params
             THEN Raise("KeyError", "beta")
             ELSE LET den == RMul(RMul(RMul(Rat(2285, 1000), R(2)), Pi), delta_f_norm)
                  IN  IF RIsZero(den)
                      THEN Raise("ZeroDivisionError", "float division by zero")
                      ELSE IF isnan(A)
                      THEN Raise("ValueError", "cannot convert float NaN to integer")
                      ELSE Ok(RCeil(RDiv(RSub(A, R(8)), den)))
    ELSE LET factor == window_params.largura_transicao_normalizada
         IN  IF RIsZero(delta_f_norm)
             THEN Raise("ZeroDivisionError", "float division by zero")
             ELSE Ok(RCeil(RDiv(factor, delta_f_norm)))

\* variant of ForceOdd: the step of lines 196-197 left out
ForceOdd_left_out(order) == order

\* lines 196-197
ForceOdd(order) == IF order % 2 = 0 THEN order + 1 ELSE order

\* variant of LimitOrder: only the upper limit is applied
LimitOrder_upper_only(order) == Min(MaxOrder, order)

\* line 200
LimitOrder(order) == Max(MinOrder, Min(MaxOrder, order))

calculate_filter_order(dict, transition_width, fs, window_name, stopband_atten) ==
    IF RIsZero(fs)
    THEN Raise("ZeroDivisionError", "float division by zero")
    ELSE IF ~DictHas(dict, window_name)
    THEN Raise("KeyError", window_name)
    ELSE LET delta_f_norm == RDiv(transition_width, fs)
             raw == RawOrder(window_name, DictGet(dict, window_name),
                             delta_f_norm, stopband_atten)
         IN  IF raw.ok THEN Ok(LimitOrder(ForceOdd(raw.val))) ELSE raw

(***************************************************************************)
(* Fixed-point array elements                                              *)
(***************************************************************************)
Scale == 10^3

\* the non-finite floats
Inf == 2^30

NaN == 2^30 + 1

IsFinite(v) == Abs(v) < Inf

\* integer quotient rounded toward zero: rounding is symmetric in the sign,
\* as IEEE rounding is
TruncDiv(a, b) ==
    Val2(LAMBDA x, y : IF (x < 0) = (y < 0) THEN x \div y ELSE -((-x) \div y), a, b)

\* the float of a rational scalar
Float(a) == Val1(LAMBDA r : TruncDiv(r.n * Scale, r.d), a)

\* a * b, b a rational scalar
FMulR(a, b) ==
    Val2(LAMBDA v, r :
            IF v = NaN THEN NaN
            ELSE IF ~IsFinite(v)
                 THEN (IF r.n = 0 THEN NaN ELSE Sign(v) * Sign(r.n) * Inf)
            ELSE TruncDiv(v * r.n, r.d),
         a, b)

\* a / b, b a rational scalar: 0/0 is NaN, x/0 is an infinity (numpy warns
\* and carries on)
FDivR(a, b) ==
    Val2(LAMBDA v, r :
            IF v = NaN THEN NaN
            ELSE IF r.n = 0 THEN (IF v = 0 THEN NaN ELSE Sign(v) * Inf)
            ELSE IF ~IsFinite(v) THEN Sign(v) * Sign(r.n) * Inf
            ELSE TruncDiv(v * r.d, r.n),
         a, b)

\* a - b
FSub(a, b) ==
    Val2(LAMBDA x, y :
            IF x = NaN \/ y = NaN THEN NaN
            ELSE IF ~IsFinite(x) THEN (IF x = y THEN NaN ELSE x)
            ELSE IF ~IsFinite(y) THEN -y
            ELSE x - y,
         a, b)

\* a + b
FAdd(a, b) == Val2(LAMBDA x, y : IF y = NaN THEN NaN ELSE FSub(x, -y), a, b)

\* a * b
FMul(a, b) ==
    Val2(LAMBDA x, y :
            IF x = NaN \/ y = NaN THEN NaN
            ELSE IF ~IsFinite(x) \/ ~IsFinite(y)
                 THEN (IF x = 0 \/ y = 0 THEN NaN ELSE Sign(x) * Sign(y) * Inf)
            ELSE TruncDiv(x * y, Scale),
         a, b)

\* np.sin(x), x a rational number of radians: Bhaskara's approximation
\* 16u(1-u) / (5 - 4u(1-u)) of sin(pi u) on a half period, continued odd and
\* periodic
Bhaskara(u) ==
    Val1(LAMBDA w : (16 * w * Scale) \div (5 * Scale - 4 * w),
         (u * (Scale - u)) \div Scale)

\* t = x / pi, r = |t| modulo 2 as a number of t.d-ths
SinTurns(t, r) ==
    IF r >= t.d
    THEN (IF t.n < 0 THEN 1 ELSE -1) * Bhaskara(((r - t.d) * Scale) \div t.d)
    ELSE (IF t.n < 0 THEN -1 ELSE 1) * Bhaskara((r * Scale) \div t.d)

Sin(x) == Val1(LAMBDA t : Val1(LAMBDA r : SinTurns(t, r), Abs(t.n) % (2 * t.d)),
               RDiv(x, Pi))

\* np.cos(x) = sin(pi/2 - |x|): even, as the real function is
Cos(a) == Val1(LAMBDA x : Sin(RSub(RDiv(Pi, R(2)), [n |-> Abs(x.n), d |-> x.d])), a)

(***************************************************************************)
(* The ideal impulse responses: arrays indexed 0..N-1                      *)
(***************************************************************************)
\* abs(n_centered) < 1e-10, for |n_centered.n| < 20000
IsCenter(n_centered) == Abs(n_centered.n) * 10^5 <= (n_centered.d - 1) \div 10^5

\* n[i] - M/2, M = N - 1
\* variant of Centered: N/2 in the place of M/2 = (N - 1)/2
Centered_about_half_N(N, i) == RSub(R(i), Rat(N, 2))

Centered(N, i) == RSub(R(i), Rat(N - 1, 2))

LowpassTap(N, fc_norm, i) ==
    Val1(LAMBDA n_centered :
            IF IsCenter(n_centered)
            THEN Float(RMul(R(2), fc_norm))
            ELSE Val1(LAMBDA arg : FDivR(FMulR(Sin(arg), RMul(R(2), fc_norm)), arg),
                      RMul(RMul(fc_norm, Pi), n_centered)),
         Centered(N, i))

ideal_lowpass(N, fc_norm) == [i \in 0..(N - 1) |-> LowpassTap(N, fc_norm, i)]

HighpassTap(N, fc_norm, i) ==
    Val1(LAMBDA n_centered :
            IF IsCenter(n_centered)
            THEN Float(RSub(R(1), fc_norm))
            ELSE Val2(LAMBDA pin, parg :
                        FSub(FDivR(Sin(pin), pin),
                             FDivR(FMulR(Sin(parg), fc_norm), parg)),
                      RMul(Pi, n_centered),
                      RMul(Pi, RMul(fc_norm, n_centered))),
         Centered(N, i))

ideal_highpass(N, fc_norm) == [i \in 0..(N - 1) |-> HighpassTap(N, fc_norm, i)]

BandpassTap(N, fc1_norm, fc2_norm, i) ==
    Val1(LAMBDA n_centered :
            IF IsCenter(n_centered)
            THEN Float(RSub(fc2_norm, fc1_norm))
            ELSE Val2(LAMBDA arg1, arg2 :
                        FSub(FDivR(FMulR(Sin(arg2), fc2_norm), arg2),
                             FDivR(FMulR(Sin(arg1), fc1_norm), arg1)),
                      RMul(RMul(fc1_norm, Pi), n_centered),
                      RMul(RMul(fc2_norm, Pi), n_centered)),
         Centered(N, i))

ideal_bandpass(N, fc1_norm, fc2_norm) ==
    [i \in 0..(N - 1) |-> BandpassTap(N, fc1_norm, fc2_norm, i)]

\* variant of BandstopTap: the centre tap is that of the band-pass response
BandstopTap_center_of_bandpass(N, fc1_norm, fc2_norm, i) ==
    Val1(LAMBDA n_centered :
            IF IsCenter(n_centered)
            THEN Float(RSub(fc2_norm, fc1_norm))
            ELSE Val1(LAMBDA pin :
                        FSub(FDivR(Sin(pin), pin),
                             FDivR(FSub(Sin(RMul(RMul(Pi, fc2_norm), n_centered)),
                                        Sin(RMul(RMul(Pi, fc1_norm), n_centered))),
                                   pin)),
                      RMul(Pi, n_centered)),
         Centered(N, i))

BandstopTap(N, fc1_norm, fc2_norm, i) ==
    Val1(LAMBDA n_centered :
            IF IsCenter(n_centered)
            THEN Float(RSub(R(1), RSub(fc2_norm, fc1_norm)))
            ELSE Val1(LAMBDA pin :
                        FSub(FDivR(Sin(pin), pin),
                             FDivR(FSub(Sin(RMul(RMul(Pi, fc2_norm), n_centered)),
                                        Sin(RMul(RMul(Pi, fc1_norm), n_centered))),
                                   pin)),
                      RMul(Pi, n_centered)),
         Centered(N, i))

ideal_bandstop(N, fc1_norm, fc2_norm) ==
    [i \in 0..(N - 1) |-> BandstopTap(N, fc1_norm, fc2_norm, i)]

(***************************************************************************)
(* create_window: scipy.signal.get_window(name, order, fftbins=False), the *)
(* symmetric window of `order` samples, by its closed form.                *)
(***************************************************************************)
\* general_cosine: sum of a[k] * cos(k * fac), fac = linspace(-pi, pi, M)[n]
RECURSIVE CosineSum(_, _, _)
CosineSum(a, fac, k) ==
    IF k = 0 THEN 0
    ELSE FAdd(CosineSum(a, fac, k - 1), FMulR(Cos(RMul(R(k - 1), fac)), a[k]))

CosineSample(M, a, n) ==
    Val1(LAMBDA fac : CosineSum(a, fac, Len(a)),
         RAdd(RSub(R(0), Pi), RMul(RMul(R(2), Pi), Rat(n, M - 1))))

\* the coefficients a of hann, hamming and blackman
CosineCoefficients(kind) ==
    CASE kind = "hann" -> << Rat(1, 2), Rat(1, 2) >>
      [] kind = "hamming" -> << Rat(54, 100), Rat(46, 100) >>
      [] kind = "blackman" -> << Rat(42, 100), Rat(50, 100), Rat(8, 100) >>

BartlettSample(M, n) ==
    IF 2 * n <= M - 1 THEN Float(Rat(2 * n, M - 1))
    ELSE Float(RSub(R(2), Rat(2 * n, M - 1)))

\* the series of the modified Bessel function I0(x) in y = (x/2)^2:
\* sum of y^k / (k!)^2, summed until the terms vanish
RECURSIVE I0Sum(_, _, _)
I0Sum(a, b, c) ==
    Val3(LAMBDA y, k, term :
            IF term = 0 THEN 0
            ELSE term + I0Sum(y, k + 1,
                              ((term \div ((k + 1) * (k + 1))) * y) \div Scale),
         a, b, c)

I0(y) == I0Sum(y, 0, Scale)

\* i0(beta * sqrt(1 - ((n - alpha) / alpha)^2)) / i0(beta), alpha = (M-1)/2
KaiserRatio(t, quarter) ==
    (I0(FMulR(Scale - ((t * t) \div Scale), quarter)) * Scale) \div I0(Float(quarter))

KaiserSample(M, beta, n) ==
    Val2(LAMBDA t, quarter : KaiserRatio(t, quarter),
         Float(RDiv(RSub(R(n), Rat(M - 1, 2)), Rat(M - 1, 2))),
         RDiv(RMul(beta, beta), R(4)))

\* one sample of the symmetric window of M samples
WindowSample(kind, beta, M, n) ==
    IF M = 1 THEN Scale
    ELSE CASE kind = "kaiser" -> KaiserSample(M, beta, n)
           [] kind = "boxcar" -> Scale
           [] kind = "bartlett" -> BartlettSample(M, n)
           [] OTHER -> CosineSample(M, CosineCoefficients(kind), n)

\* fftbins=False
get_window(kind, beta, M) == [n \in 0..(M - 1) |-> WindowSample(kind, beta, M, n)]

\* the elif chain of lines 294-303: the scipy name of each window it knows
ScipyName ==
    [Retangular |-> "boxcar", Bartlett |-> "bartlett", Hanning |-> "hann",
     Hamming |-> "hamming", Blackman |-> "blackman"]

\* variant of create_window: the elif chain without its Hamming branch
create_window_without_hamming(dict, window_name, order) ==
    IF HasKaiser(window_name)
    THEN IF ~DictHas(dict, window_name) THEN Raise("KeyError", window_name)
         ELSE IF "beta" \notin DOMAIN DictGet(dict, window_name)
         THEN Raise("KeyError", "beta")
         ELSE Ok(get_window("kaiser", DictGet(dict, window_name).beta, order))
    ELSE IF window_name \in DOMAIN ScipyName \ {"Hamming"}
    THEN Ok(get_window(ScipyName[window_name], None, order))
    ELSE Raise("ValueError", "Janela nao suportada")

create_window(dict, window_name, order) ==
    IF HasKaiser(window_name)
    THEN IF ~DictHas(dict, window_name) THEN Raise("KeyError", window_name)
         ELSE IF "beta" \notin DOMAIN DictGet(dict, window_name)
         THEN Raise("KeyError", "beta")
         ELSE Ok(get_window("kaiser", DictGet(dict, window_name).beta, order))
    ELSE IF window_name \in DOMAIN ScipyName
    THEN Ok(get_window(ScipyName[window_name], None, order))
    ELSE Raise("ValueError", "Janela nao suportada")

(***************************************************************************)
(* design_filter, statement by statement                                   *)
(***************************************************************************)
\* lines 326-327
design_cutoffs(args) ==
    calculate_cutoff_frequencies(args.filter_type, args.fp_values,
                                 args.transition_width, args.fs)

\* variant of design_order: the attenuation argument is not passed on
design_order_default_atten(dict, args) ==
    calculate_filter_order(dict, args.transition_width, args.fs,
                           args.window_name, None)

\* lines 330-331
design_order(dict, args) ==
    calculate_filter_order(dict, args.transition_width, args.fs,
                           args.window_name, args.stopband_atten)

\* fc_list[i] / nyquist for the (0-based) index i
Normalized(fc_list, i, nyquist) == RDiv(fc_list[i + 1], nyquist)

\* lines 334-349: the cutoffs as fractions of Nyquist, the ideal response
design_ideal(args, fc_list, order) ==
    LET nyquist == Half(args.fs)
        edges == IF args.filter_type \in {"Passa-Baixa", "Passa-Alta"} THEN 1 ELSE 2
    IN  IF Len(fc_list) < edges
        THEN Raise("IndexError", "list index out of range")
        ELSE IF RIsZero(nyquist)
        THEN Raise("ZeroDivisionError", "float division by zero")
        ELSE CASE args.filter_type = "Passa-Baixa" ->
                    Ok(ideal_lowpass(order, Normalized(fc_list, 0, nyquist)))
               [] args.filter_type = "Passa-Alta" ->
                    Ok(ideal_highpass(order, Normalized(fc_list, 0, nyquist)))
               [] args.filter_type = "Passa-Banda" ->
                    Ok(ideal_bandpass(order, Normalized(fc_list, 0, nyquist),
                                      Normalized(fc_list, 1, nyquist)))
               [] OTHER ->
                    Ok(ideal_bandstop(order, Normalized(fc_list, 0, nyquist),
                                      Normalized(fc_list, 1, nyquist)))

\* variant of design_window: for a Kaiser window and a desired attenuation
\* above 50 dB, the window of the catalog's greatest beta is built
design_window_beta_from_attenuation(dict, args, order) ==
    create_window(dict,
                  IF HasKaiser(args.window_name) /\ DictHas(dict, args.window_name)
                         /\ Truthy(args.stopband_atten)
                         /\ RGt(args.stopband_atten, R(50))
                  THEN "Kaiser_beta_8.96" ELSE args.window_name,
                  order)

\* line 352
design_window(dict, args, order) == create_window(dict, args.window_name, order)

\* line 355: h_ideal * window, element by element
design_multiply(h_ideal, window) ==
    [i \in DOMAIN h_ideal |-> FMul(h_ideal[i], window[i])]

\* line 358: signal.freqz(h_windowed, worN=8192, fs=fs).  Only the sample
\* grid is modelled, not the spectrum.
design_freqz(args, h_windowed) ==
    [worN |-> 8192, fs |-> args.fs, taps |-> Cardinality(DOMAIN h_windowed)]

\* lines 361-370
design_result(dict, args, loc) ==
    [coefficients |-> loc.h_windowed,
     ideal_response |-> loc.h_ideal,
     window |-> loc.window,
     order |-> loc.order,
     cutoff_frequencies |-> loc.fc_list,
     frequency_response |-> design_freqz(args, loc.h_windowed),
     delta_f_norm |-> RDiv(args.transition_width, args.fs),
     window_params |-> DictGet(dict, args.window_name)]

\* lines 352-370, the ideal response h and the window w being computed
design_arrays(dict, args, fc, o, h, w) ==
    IF ~h.ok THEN h
    ELSE IF ~w.ok THEN w
    ELSE Val1(LAMBDA h_windowed :
                Ok(design_result(dict, args,
                                 [fc_list |-> fc.val, order |-> o.val,
                                  h_ideal |-> h.val, window |-> w.val,
                                  h_windowed |-> h_windowed])),
              design_multiply(h.val, w.val))

\* lines 334-370, the cutoffs fc and the order o being computed
design_from(dict, args, fc, o) ==
    IF ~fc.ok THEN fc
    ELSE IF ~o.ok THEN o
    ELSE Val2(LAMBDA h, w : design_arrays(dict, args, fc, o, h, w),
              design_ideal(args, fc.val, o.val),
              design_window(dict, args, o.val))

\* design_filter from its first to its last statement, without interruption
design_filter(dict, args) ==
    Val2(LAMBDA fc, o : design_from(dict, args, fc, o),
         design_cutoffs(args), design_order(dict, args))

(***************************************************************************)
(* generate_detailed_report: the figures the report derives from its       *)
(* arguments (the text around them is not modelled)                        *)
(***************************************************************************)
report_figures(filter_specs, results, nyquist, shown) ==
    IF RIsZero(results.delta_f_norm) \/ RIsZero(nyquist)
    THEN Raise("ZeroDivisionError", "float division by zero")
    ELSE Ok([fator_sobre_delta |->
                RDiv(results.window_params.largura_transicao_normalizada,
                     results.delta_f_norm),
             ordem_M |-> results.order - 1,
             comprimento_N |-> results.order,
             fc_normalizadas |->
                [k \in 1..Len(results.cutoff_frequencies) |->
                    RDiv(results.cutoff_frequencies[k], nyquist)],
             primeiros |-> [i \in 0..(shown - 1) |-> results.coefficients[i]],
             centro |-> (results.order - 1) \div 2])

generate_detailed_report(filter_specs, results) ==
    Val2(LAMBDA specs, res :
            report_figures(specs, res, Half(specs.fs),
                           Min(6, Cardinality(DOMAIN res.coefficients))),
         filter_specs, results)

(***************************************************************************)
(* The attributes of the calculator                                        *)
(***************************************************************************)
\* variant of window_parameters_after: get_available_windows filters the
\* catalog in place
window_parameters_filtered_in_place(dict, c) ==
    IF c.op = "get_available_windows"
    THEN SelectSeq(dict, LAMBDA e : RGe(e.val.atenuacao_banda_rejeicao_db,
                                        c.required_attenuation))
    ELSE dict

\* variant of window_parameters_after: design_filter stores the desired
\* attenuation in the entry of the window it names
window_parameters_storing_attenuation(dict, c) ==
    IF c.op = "design_filter" /\ Truthy(c.args.stopband_atten)
    THEN [i \in 1..Len(dict) |->
            IF dict[i].key = c.args.window_name
            THEN [key |-> dict[i].key,
                  val |-> [dict[i].val EXCEPT !.atenuacao_banda_rejeicao_db =
                                                    c.args.stopband_atten]]
            ELSE dict[i]]
    ELSE dict

\* variant of window_parameters_after: create_window takes beta out of the
\* entry it reads (pop instead of a subscript)
window_parameters_popping_beta(dict, c) ==
    IF c.op = "create_window" /\ HasKaiser(c.window_name)
    THEN [i \in 1..Len(dict) |->
            IF dict[i].key = c.window_name
            THEN [key |-> dict[i].key,
                  val |-> [x \in DOMAIN dict[i].val \ {"beta"} |-> dict[i].val[x]]]
            ELSE dict[i]]
    ELSE dict

\* self.window_parameters once a statement of the call c has run: no method
\* assigns to an attribute of self, to window_parameters or to an entry of it
window_parameters_after(dict, c) == dict

(***************************************************************************)
(* The inputs of the model                                                 *)
(***************************************************************************)
FilterTypes == {"Passa-Baixa", "Passa-Alta", "Passa-Banda", "Rejeita-Banda"}

OneEdge == {"Passa-Baixa", "Passa-Alta"}

\* a filter type outside the four
OtherType == "Outro"

Rs(S) == {R(x) : x \in S}

Attenuations == {None} \cup Rs({0, 5, 8, 9, 60, 100})

RequiredAttenuations == Rs({0, 21, 22, 50, 53, 60, 75, 90, 91}) \cup {Rat(105, 2)}

SampleRates == Rs({1000, 8000})

Widths == Rs({1, 2, 100, 200, 500, 3000})

SingleEdges ==
    {<< R(x) >> : x \in {-1000, -250, 0, 250, 500, 1500, 3500, 3900, 4000, 4500}}

PairEdges ==
    {<< R(x), R(y) >> : x, y \in {-500, 0, 250, 500, 1000, 2000, 3800, 4000, 4200}}

EdgesOf(filter_type) == IF filter_type \in {"Passa-Banda", "Rejeita-Banda"}
                        THEN PairEdges ELSE SingleEdges

WindowLengths == {1, 11, 12, 53}

\* lengths and normalized cutoffs of the direct calls of the synthesizers
IdealLengths == {11, 12, 13, 53, 10001}

IdealCutoffs == {R(0), Rat(1, 4), Rat(7, 16)}

IdealBands == {<< Rat(1, 4), Rat(1, 2) >>, << Rat(1, 8), Rat(7, 16) >>}

DesignArgs(ft, fs, fp, tw, a, w) ==
    [filter_type |-> ft, fs |-> fs, fp_values |-> fp, transition_width |-> tw,
     stopband_atten |-> a, window_name |-> w]

\* the arguments of the direct calls of generate_detailed_report: the
\* specification and the result of a design
ReportDesigns ==
    {DesignArgs("Passa-Baixa", R(8000), << R(1500) >>, R(500), None, "Hamming"),
     DesignArgs("Passa-Alta", R(8000), << R(1500) >>, R(500), R(60), "Blackman"),
     DesignArgs("Passa-Banda", R(8000), << R(1000), R(2000) >>, R(500), R(60),
                "Kaiser_beta_6.76")}

\* designs of ordinary length
OrdinaryDesigns ==
    {DesignArgs(ft, R(8000), fp, tw, a, w) :
        ft \in FilterTypes \cup {OtherType},
        fp \in {<< R(x) >> : x \in {-250, 1500, 3900, 4500}}
               \cup {<< R(1000), R(2000) >>, << R(2000), R(1000) >>,
                     << R(1000), R(3800) >>},
        tw \in Rs({0, 500, 3000}),
        a \in {None, R(5), R(60)},
        w \in WindowNames}

\* designs with a transition band of 2 Hz at 8000 Hz: thousands of taps
NarrowDesigns ==
    {DesignArgs("Passa-Baixa", R(8000), << R(999) >>, R(2), None, "Hamming"),
     DesignArgs("Passa-Alta", R(8000), << R(1001) >>, R(2), R(60), "Retangular"),
     DesignArgs("Rejeita-Banda", R(8000), << R(1001), R(1999) >>, R(2), None,
                "Kaiser_beta_8.96")}

\* the calls in which fp_values has the shape its filter type reads
DesignInputs ==
    {a \in OrdinaryDesigns :
        Len(a.fp_values) = (IF a.filter_type \in OneEdge \cup {OtherType} THEN 1 ELSE 2)}
    \cup NarrowDesigns

(***************************************************************************)
(* FilterDesignApp (filter_interface.py).  The text of an entry field is a *)
(* tuple of characters; float() reads the numerals, signed or not, and     *)
(* 'nan', and raises ValueError on any other text of the model.            *)
(***************************************************************************)
DigitChars == {"0", "1", "2", "3", "4", "5", "6", "7", "8", "9"}

DigitValue(c) ==
    CASE c = "0" -> 0 [] c = "1" -> 1 [] c = "2" -> 2 [] c = "3" -> 3 [] c = "4" -> 4
      [] c = "5" -> 5 [] c = "6" -> 6 [] c = "7" -> 7 [] c = "8" -> 8 [] c = "9" -> 9

IsNumeral(text) == Len(text) > 0 /\ \A i \in 1..Len(text) : text[i] \in DigitChars

RECURSIVE NumeralValue(_)
NumeralValue(text) ==
    IF text = << >> THEN 0
    ELSE 10 * NumeralValue(SubSeq(text, 1, Len(text) - 1)) + DigitValue(text[Len(text)])

\* Python's float() on the text of an entry field
float(text) ==
    IF text = << "n", "a", "n" >> THEN Ok(nan)
    ELSE IF IsNumeral(text) THEN Ok(R(NumeralValue(text)))
    ELSE IF Len(text) > 1 /\ text[1] = "-" /\ IsNumeral(Tail(text))
    THEN Ok(R(-NumeralValue(Tail(text))))
    ELSE Raise("ValueError", "could not convert string to float")

\* lines 552-571, the sampling rate, the width and the attenuation being read
collect_edges(a, fs, transition_width, stopband_atten) ==
    IF a.filter_type_var \in OneEdge
    THEN LET fp_values == float(a.fp1_var)
         IN  IF ~fp_values.ok THEN fp_values
             ELSE IF RLe(fp_values.val, R(0))
             THEN Raise("ValueError", "Frequencia deve ser positiva")
             ELSE Ok(DesignArgs(a.filter_type_var, fs, << fp_values.val >>,
                                transition_width, stopband_atten,
                                a.selected_window_var))
    ELSE LET fp1 == float(a.fp1_var)
             fp2 == float(a.fp2_var)
         IN  IF ~fp1.ok THEN fp1
             ELSE IF ~fp2.ok THEN fp2
             ELSE IF RLe(fp1.val, R(0)) \/ RLe(fp2.val, R(0))
             THEN Raise("ValueError", "Frequencias devem ser positivas")
             ELSE Ok(DesignArgs(a.filter_type_var, fs, << fp1.val, fp2.val >>,
                                transition_width, stopband_atten,
                                a.selected_window_var))

\* collect_filter_specifications: the keyword arguments of the design, or
\* the ValueError of the first reading or validation that fails
collect_filter_specifications(a) ==
    LET fs == float(a.fs_var)
        transition_width == float(a.transition_width_var)
        stopband_atten == float(a.stopband_atten_var)
    IN  IF ~fs.ok THEN fs
        ELSE IF ~transition_width.ok THEN transition_width
        ELSE IF ~stopband_atten.ok THEN stopband_atten
        ELSE IF RLe(fs.val, R(0))
        THEN Raise("ValueError", "Frequencia de amostragem deve ser positiva")
        ELSE IF RLe(transition_width.val, R(0))
        THEN Raise("ValueError", "Largura de transicao deve ser positiva")
        ELSE IF RLe(stopband_atten.val, R(0))
        THEN Raise("ValueError", "Atenuacao deve ser positiva")
        ELSE IF a.selected_window_var = ""
        THEN Raise("ValueError", "Selecione uma janela")
        ELSE collect_edges(a, fs.val, transition_width.val, stopband_atten.val)

(***************************************************************************)
(* The state machine: one FilterCalculator serving one call at a time      *)
(***************************************************************************)
VARIABLES
    window_parameters,  \* self.window_parameters
    pc,                 \* "idle", a line of design_filter, or "returned"
    call,               \* the call being served: its name and arguments
    locals,             \* design_filter's local variables assigned so far
    ret,                \* how the call ended: Ok(value) or Raise(type, msg)
    threads,            \* the calls of concurrent callers, one record each
    app                 \* the attributes and widgets of the FilterDesignApp

vars == << window_parameters, pc, call, locals, ret, threads, app >>

NoCall == [op |-> "none"]

NoLocals == [x \in {} |-> 0]

NoRet == [ok |-> FALSE, type |-> "none", msg |-> ""]

\* FilterDesignApp.__init__: the variables of the entry fields, the two
\* buttons, and what the handlers keep.  handler and messagebox tell which
\* handler ran last and the message box it showed; calculator_call is the
\* call of calculator.design_filter it made, if any; window_combo holds the
\* values of the window combobox (empty: there is no combobox).  What the
\* figures and the report widget show is not kept.
FilterDesignApp ==
    [filter_type_var |-> "Passa-Baixa",
     fs_var |-> << "8", "0", "0", "0" >>,
     fp1_var |-> << "1", "5", "0", "0" >>,
     fp2_var |-> << "2", "5", "0", "0" >>,
     transition_width_var |-> << "5", "0", "0" >>,
     stopband_atten_var |-> << "5", "0" >>,
     selected_window_var |-> "",
     available_windows |-> << >>,
     window_combo |-> << >>,
     calc_button |-> "disabled",
     export_button |-> "disabled",
     current_results |-> None,
     handler |-> "__init__",
     messagebox |-> "none",
     calculator_call |-> NoCall]

\* what a handler starts from: no message box shown, no calculator call made
Handling(a, name) ==
    [a EXCEPT !.handler = name, !.messagebox = "none", !.calculator_call = NoCall]

\* variant of check_available_windows: the selection is reset when no window
\* meets the attenuation
check_available_windows_resetting(a, dict) ==
    LET h == Handling(a, "check_available_windows")
        required_atten == float(a.stopband_atten_var)
    IN  IF ~required_atten.ok
        THEN [h EXCEPT !.messagebox = "showerror Erro"]
        ELSE LET available == get_available_windows(dict, required_atten.val)
             IN  IF available = << >>
                 THEN [h EXCEPT !.available_windows = << >>, !.window_combo = << >>,
                                !.selected_window_var = "",
                                !.messagebox = "showwarning Aviso"]
                 ELSE [h EXCEPT !.available_windows = available,
                                !.window_combo = available]

\* check_available_windows, lines 327-360
check_available_windows(a, dict) ==
    LET h == Handling(a, "check_available_windows")
        required_atten == float(a.stopband_atten_var)
    IN  IF ~required_atten.ok
        THEN [h EXCEPT !.messagebox = "showerror Erro"]
        ELSE LET available == get_available_windows(dict, required_atten.val)
             IN  IF available = << >>
                 THEN [h EXCEPT !.available_windows = << >>, !.window_combo = << >>,
                                !.messagebox = "showwarning Aviso"]
                 ELSE [h EXCEPT !.available_windows = available,
                                !.window_combo = available]

\* on_window_selected, lines 384-387
on_window_selected(a) ==
    LET h == Handling(a, "on_window_selected")
    IN  IF a.selected_window_var # ""
        THEN [h EXCEPT !.calc_button = "normal"]
        ELSE h

\* design_filter, lines 398-412: the calculator has returned `results`;
\* drawn tells whether update_all_plots (filter_visualizer.py, lines 258-275)
\* returns or matplotlib or Tk raises while the figures are redrawn
design_succeeded(h, filter_specs, results, drawn) ==
    LET stored == [h EXCEPT !.current_results = results]
        report == generate_detailed_report(filter_specs, results)
    IN  IF ~drawn \/ ~report.ok
        THEN [stored EXCEPT !.messagebox = "showerror Erro"]
        ELSE [stored EXCEPT !.export_button = "normal",
                            !.messagebox = "showinfo Sucesso"]

\* variant of design_collected: the export button is enabled whatever the
\* calculator answers
design_collected_enabling_always(h, filter_specs, results, drawn) ==
    LET called == [h EXCEPT !.calculator_call =
                                [op |-> "design_filter", args |-> filter_specs],
                            !.export_button = "normal"]
    IN  IF results.ok
        THEN design_succeeded(called, filter_specs, results.val, drawn)
        ELSE IF results.type = "ValueError"
        THEN [called EXCEPT !.messagebox = "showerror Erro de Entrada"]
        ELSE [called EXCEPT !.messagebox = "showerror Erro"]

\* design_filter, lines 396-417: the specifications have been collected and
\* calculator.design_filter has answered `results`
design_collected(h, filter_specs, results, drawn) ==
    LET called == [h EXCEPT !.calculator_call =
                                [op |-> "design_filter", args |-> filter_specs]]
    IN  IF results.ok
        THEN design_succeeded(called, filter_specs, results.val, drawn)
        ELSE IF results.type = "ValueError"
        THEN [called EXCEPT !.messagebox = "showerror Erro de Entrada"]
        ELSE [called EXCEPT !.messagebox = "showerror Erro"]

\* the answer of calculator.design_filter to the handler, NoRet when the
\* handler does not get to call it
calculator_answer(a, dict) ==
    Val1(LAMBDA filter_specs :
            IF filter_specs.ok THEN design_filter(dict, filter_specs.val) ELSE NoRet,
         collect_filter_specifications(a))

\* FilterDesignApp.design_filter, lines 389-417
app_design_filter(a, results, drawn) ==
    LET h == Handling(a, "design_filter")
        filter_specs == collect_filter_specifications(a)
    IN  IF ~filter_specs.ok
        THEN [h EXCEPT !.messagebox = "showerror Erro de Entrada"]
        ELSE design_collected(h, filter_specs.val, results, drawn)

\* export_coefficients, lines 419-462; saved tells how the file dialog and
\* the writing of the file went
export_coefficients(a, saved) ==
    LET h == Handling(a, "export_coefficients")
    IN  IF a.current_results = None
        THEN [h EXCEPT !.messagebox = "showwarning Aviso"]
        ELSE IF saved = "cancelled" THEN h
        ELSE IF saved = "written" THEN [h EXCEPT !.messagebox = "showinfo Sucesso"]
        ELSE [h EXCEPT !.messagebox = "showerror Erro"]

\* the number of threads that share the calculator
NumThreads == 2

Threads == 1..NumThreads

IdleThread == [pc |-> "idle", call |-> NoCall, locals |-> NoLocals, ret |-> NoRet]

Init ==
    /\ window_parameters = Catalog
    /\ pc = "idle"
    /\ call = NoCall
    /\ locals = NoLocals
    /\ ret = NoRet
    /\ threads = [t \in Threads |-> IdleThread]
    /\ app = FilterDesignApp

\* a call that runs to its end in one step
Finish(c, r) ==
    /\ pc = "idle"
    /\ call' = c
    /\ ret' = r
    /\ pc' = "returned"
    /\ window_parameters' = window_parameters_after(window_parameters, c)
    /\ UNCHANGED << locals, threads, app >>

GetAvailableWindows ==
    \E r \in RequiredAttenuations :
        Finish([op |-> "get_available_windows", required_attenuation |-> r],
               Ok(get_available_windows(window_parameters, r)))

CalculateCutoffFrequencies ==
    \E ft \in FilterTypes \cup {OtherType}, fs \in SampleRates, tw \in Widths :
        \E fp \in EdgesOf(ft) :
            Finish([op |-> "calculate_cutoff_frequencies", filter_type |-> ft,
                    fp_values |-> fp, transition_width |-> tw, fs |-> fs],
                   calculate_cutoff_frequencies(ft, fp, tw, fs))

CalculateFilterOrder ==
    \E tw \in Widths \cup {R(0)}, fs \in SampleRates, w \in WindowNames, a \in Attenuations :
        Finish([op |-> "calculate_filter_order", transition_width |-> tw, fs |-> fs,
                window_name |-> w, stopband_atten |-> a],
               calculate_filter_order(window_parameters, tw, fs, w, a))

CreateWindow ==
    \E w \in WindowNames, order \in WindowLengths :
        Finish([op |-> "create_window", window_name |-> w, order |-> order],
               create_window(window_parameters, w, order))

\* one of the ideal_* synthesizers, called directly
IdealResponse ==
    \E N \in IdealLengths :
        \/ \E fc \in IdealCutoffs :
            \/ Finish([op |-> "ideal_lowpass", N |-> N, fc_norm |-> fc],
                      Ok(ideal_lowpass(N, fc)))
            \/ Finish([op |-> "ideal_highpass", N |-> N, fc_norm |-> fc],
                      Ok(ideal_highpass(N, fc)))
        \/ \E b \in IdealBands :
            \/ Finish([op |-> "ideal_bandpass", N |-> N, fc1_norm |-> b[1],
                       fc2_norm |-> b[2]],
                      Ok(ideal_bandpass(N, b[1], b[2])))
            \/ Finish([op |-> "ideal_bandstop", N |-> N, fc1_norm |-> b[1],
                       fc2_norm |-> b[2]],
                      Ok(ideal_bandstop(N, b[1], b[2])))

\* generate_detailed_report, called with a specification and the result of
\* its design; a design that raised has no result to report
GenerateDetailedReport ==
    /\ pc = "idle"
    /\ \E a \in ReportDesigns :
        \E r \in {design_filter(window_parameters, a)} :
            /\ r.ok
            /\ Finish([op |-> "generate_detailed_report", filter_specs |-> a],
                      generate_detailed_report(a, r.val))

\* design_filter is entered
DesignCall ==
    /\ pc = "idle"
    /\ \E a \in DesignInputs : call' = [op |-> "design_filter", args |-> a]
    /\ pc' = "cutoffs"
    /\ locals' = NoLocals
    /\ UNCHANGED << window_parameters, ret, threads, app >>

\* variant of Statement: a statement that raises is tried again
Statement_retried(at, r, name, next) ==
    /\ pc = at
    /\ IF r.ok
       THEN /\ locals' = [x \in DOMAIN locals \cup {name} |->
                             IF x = name THEN r.val ELSE locals[x]]
            /\ pc' = next
            /\ ret' = ret
       ELSE /\ ret' = r
            /\ pc' = at
            /\ locals' = locals
    /\ window_parameters' = window_parameters_after(window_parameters, call)
    /\ UNCHANGED << call, threads, app >>

\* one statement of design_filter: it assigns a local and goes on, or raises
Statement(at, r, name, next) ==
    /\ pc = at
    /\ IF r.ok
       THEN /\ locals' = [x \in DOMAIN locals \cup {name} |->
                             IF x = name THEN r.val ELSE locals[x]]
            /\ pc' = next
            /\ ret' = ret
       ELSE /\ ret' = r
            /\ pc' = "returned"
            /\ locals' = locals
    /\ window_parameters' = window_parameters_after(window_parameters, call)
    /\ UNCHANGED << call, threads, app >>

DesignCutoffs == Statement("cutoffs", design_cutoffs(call.args), "fc_list", "order")

DesignOrder ==
    Statement("order", design_order(window_parameters, call.args), "order", "ideal")

DesignIdeal ==
    Statement("ideal", design_ideal(call.args, locals.fc_list, locals.order),
              "h_ideal", "window")

DesignWindow ==
    Statement("window", design_window(window_parameters, call.args, locals.order),
              "window", "multiply")

DesignMultiply ==
    Statement("multiply", Ok(design_multiply(locals.h_ideal, locals.window)),
              "h_windowed", "freqz")

\* lines 358-370
DesignReturn ==
    /\ pc = "freqz"
    /\ ret' = Ok(design_result(window_parameters, call.args, locals))
    /\ pc' = "returned"
    /\ window_parameters' = window_parameters_after(window_parameters, call)
    /\ UNCHANGED << call, locals, threads, app >>

\* the caller takes the result; the calculator is ready for the next call
Return ==
    /\ pc = "returned"
    /\ pc' = "idle"
    /\ call' = NoCall
    /\ locals' = NoLocals
    /\ ret' = NoRet
    /\ UNCHANGED << window_parameters, threads, app >>

Next ==
    \/ GetAvailableWindows
    \/ CalculateCutoffFrequencies
    \/ CalculateFilterOrder
    \/ CreateWindow
    \/ IdealResponse
    \/ GenerateDetailedReport
    \/ DesignCall
    \/ DesignCutoffs
    \/ DesignOrder
    \/ DesignIdeal
    \/ DesignWindow
    \/ DesignMultiply
    \/ DesignReturn
    \/ Return

Spec == Init /\ [][Next]_vars

\* a call that has been entered runs on: the interpreter executes its
\* statements one after the other
DesignStep ==
    \/ DesignCutoffs
    \/ DesignOrder
    \/ DesignIdeal
    \/ DesignWindow
    \/ DesignMultiply
    \/ DesignReturn

\* the designs of the calls whose termination is checked: every filter
\* type, every window name, valid and invalid edges, a width of zero, and
\* a design of 10001 taps
LiveDesigns ==
    {a \in DesignInputs : IsNone(a.stopband_atten) /\ a.transition_width # R(3000)}
    \cup {a \in NarrowDesigns : a.filter_type = "Passa-Baixa"}

\* design_filter is entered with one of LiveDesigns
LiveDesignCall == DesignCall /\ call'.args \in LiveDesigns

DesignNext == LiveDesignCall \/ DesignStep \/ Return

\* The interpreter runs the next statement of a call that has been entered:
\* a statement that can run is not postponed for ever.
FairSpec == Init /\ [][DesignNext]_vars /\ WF_vars(DesignStep)

(***************************************************************************)
(* Threads: several callers share one FilterCalculator, each with its own  *)
(* arguments and its own locals; their statements interleave.              *)
(***************************************************************************)
\* the designs and the attenuation queries of the threads
ThreadDesigns ==
    {DesignArgs("Passa-Alta", R(8000), << R(3500) >>, R(3000), a, "Kaiser_beta_4.54") :
        a \in {None, R(60)}}
    \cup {DesignArgs("Passa-Baixa", R(8000), << R(4500) >>, R(500), None, "Hamming"),
          DesignArgs("Passa-Baixa", R(8000), << R(1500) >>, R(500), None, "Triangular")}

ThreadAttenuations == Rs({60})

\* the thread after a statement with outcome r: the local `name` is
\* assigned and the thread goes on to `next`, or the exception ends the call
Advance(th, r, name, next) ==
    IF r.ok
    THEN [th EXCEPT !.locals = [x \in DOMAIN th.locals \cup {name} |->
                                    IF x = name THEN r.val ELSE th.locals[x]],
                    !.pc = next]
    ELSE [th EXCEPT !.ret = r, !.pc = "returned"]

\* the thread after the statement of design_filter it is at
design_step(dict, th) ==
    CASE th.pc = "cutoffs" ->
            Advance(th, design_cutoffs(th.call.args), "fc_list", "order")
      [] th.pc = "order" ->
            Advance(th, design_order(dict, th.call.args), "order", "ideal")
      [] th.pc = "ideal" ->
            Advance(th, design_ideal(th.call.args, th.locals.fc_list, th.locals.order),
                    "h_ideal", "window")
      [] th.pc = "window" ->
            Advance(th, design_window(dict, th.call.args, th.locals.order),
                    "window", "multiply")
      [] th.pc = "multiply" ->
            Advance(th, Ok(design_multiply(th.locals.h_ideal, th.locals.window)),
                    "h_windowed", "freqz")
      [] th.pc = "freqz" ->
            [th EXCEPT !.ret = Ok(design_result(dict, th.call.args, th.locals)),
                       !.pc = "returned"]

\* thread t does `th` and the statement it ran belongs to the call c
ThreadDoes(t, th, c) ==
    /\ threads' = [threads EXCEPT ![t] = th]
    /\ window_parameters' = window_parameters_after(window_parameters, c)
    /\ UNCHANGED << pc, call, locals, ret, app >>

ThreadGetAvailableWindows(t) ==
    /\ threads[t].pc = "idle"
    /\ \E r \in ThreadAttenuations :
        LET c == [op |-> "get_available_windows", required_attenuation |-> r]
        IN  ThreadDoes(t, [pc |-> "returned", call |-> c, locals |-> NoLocals,
                           ret |-> Ok(get_available_windows(window_parameters, r))],
                       c)

ThreadDesignCall(t) ==
    /\ threads[t].pc = "idle"
    /\ \E a \in ThreadDesigns :
        threads' = [threads EXCEPT ![t] =
                        [pc |-> "cutoffs", call |-> [op |-> "design_filter", args |-> a],
                         locals |-> NoLocals, ret |-> NoRet]]
    /\ UNCHANGED << window_parameters, pc, call, locals, ret, app >>

ThreadDesignStep(t) ==
    /\ threads[t].pc \notin {"idle", "returned"}
    /\ ThreadDoes(t, design_step(window_parameters, threads[t]), threads[t].call)

ThreadReturn(t) ==
    /\ threads[t].pc = "returned"
    /\ threads' = [threads EXCEPT ![t] = IdleThread]
    /\ UNCHANGED << window_parameters, pc, call, locals, ret, app >>

NextThreads ==
    \E t \in Threads :
        \/ ThreadGetAvailableWindows(t)
        \/ ThreadDesignCall(t)
        \/ ThreadDesignStep(t)
        \/ ThreadReturn(t)

SpecThreads == Init /\ [][NextThreads]_vars

(***************************************************************************)
(* The user at the window of the FilterDesignApp: one action per event     *)
(***************************************************************************)
Chars(n) ==
    CASE n = 0 -> << "0" >>
      [] n = 50 -> << "5", "0" >>
      [] n = 80 -> << "8", "0" >>
      [] n = 500 -> << "5", "0", "0" >>
      [] n = 1500 -> << "1", "5", "0", "0" >>
      [] n = 3900 -> << "3", "9", "0", "0" >>
      [] n = 8000 -> << "8", "0", "0", "0" >>

\* the texts the user types into the entry fields
AttenuationTexts == {Chars(50), Chars(80), Chars(0), << "n", "a", "n" >>, << "a" >>}

RateTexts == {Chars(8000), Chars(0)}

EdgeTexts == {Chars(1500), Chars(3900), << "-" >> \o Chars(500)}

WidthTexts == {Chars(500), << >>}

\* the filter types the user picks
PickedTypes == {"Passa-Baixa", "Passa-Banda"}

\* the windows the user picks when the combobox offers them
PickedWindows == {"Hamming"}

\* whether the figures get drawn or the drawing raises
Drawn == BOOLEAN

\* how the saving of the coefficients goes
Saved == {"cancelled", "written"}

\* the handler `a` has run; the calculator is idle before and after
AppDoes(a) ==
    /\ pc = "idle"
    /\ app' = a
    /\ window_parameters' = window_parameters_after(window_parameters,
                                                    a.calculator_call)
    /\ UNCHANGED << pc, call, locals, ret, threads >>

\* the user types into an entry field (no handler is bound to the entries)
EditEntry ==
    /\ pc = "idle"
    /\ \E h \in {Handling(app, "entry")} :
        \/ \E t \in AttenuationTexts : AppDoes([h EXCEPT !.stopband_atten_var = t])
        \/ \E t \in RateTexts : AppDoes([h EXCEPT !.fs_var = t])
        \/ \E t \in EdgeTexts : AppDoes([h EXCEPT !.fp1_var = t])
        \/ \E t \in WidthTexts : AppDoes([h EXCEPT !.transition_width_var = t])

\* the user picks a filter type: on_filter_type_changed rebuilds the entries
\* of the edges, which keep their variables
OnFilterTypeChanged ==
    /\ pc = "idle"
    /\ \E ft \in PickedTypes :
        AppDoes([Handling(app, "on_filter_type_changed") EXCEPT !.filter_type_var = ft])

\* the user presses 'verify windows'
CheckAvailableWindows ==
    /\ pc = "idle"
    /\ AppDoes(check_available_windows(app, window_parameters))

\* the user picks a value of the window combobox, which is read-only: the
\* variable takes the value and <<ComboboxSelected>> runs the handler
OnWindowSelected ==
    \E i \in 1..Len(app.window_combo) :
        /\ app.window_combo[i] \in PickedWindows
        /\ AppDoes(on_window_selected([app EXCEPT !.selected_window_var =
                                                       app.window_combo[i]]))

\* the user presses 'design'; a disabled button ignores the press
PressDesign ==
    /\ app.calc_button = "normal"
    /\ \E results \in {calculator_answer(app, window_parameters)} :
        \E drawn \in Drawn : AppDoes(app_design_filter(app, results, drawn))

\* the user presses 'export'
PressExport ==
    /\ app.export_button = "normal"
    /\ \E saved \in Saved : AppDoes(export_coefficients(app, saved))

NextGui ==
    \/ EditEntry
    \/ OnFilterTypeChanged
    \/ CheckAvailableWindows
    \/ OnWindowSelected
    \/ PressDesign
    \/ PressExport

SpecGui == Init /\ [][NextGui]_vars

(***************************************************************************)
(* A caller that keeps the result of design_filter and stores into it      *)
(***************************************************************************)
\* the designs of the caller
CallerDesigns ==
    {DesignArgs("Passa-Baixa", R(8000), << R(1500) >>, R(3000), a, w) :
        a \in {None, R(60)}, w \in {"Hamming", "Kaiser_beta_6.76"}}

\* the attenuations the caller stores
CallerAttenuations == Rs({0, 100})

\* self.window_parameters once the caller ran
\*     results['window_params']['atenuacao_banda_rejeicao_db'] = v
\* on the result of a design with the window window_name: line 369 puts the
\* catalog's own entry into the result, not a copy of it
window_params_item_set(dict, window_name, v) ==
    [i \in 1..Len(dict) |->
        IF dict[i].key = window_name
        THEN [key |-> dict[i].key,
              val |-> [dict[i].val EXCEPT !.atenuacao_banda_rejeicao_db = v]]
        ELSE dict[i]]

CallerDesignCall == DesignCall /\ call'.args \in CallerDesigns

\* the caller stores into the result it holds: into the dict itself, into
\* one of its arrays (each made by the call that returned it), or into its
\* window_params
CallerModifiesResult ==
    /\ pc = "returned"
    /\ call.op = "design_filter"
    /\ ret.ok
    /\ \/ /\ ret' = [ret EXCEPT !.val.order = 0]
          /\ UNCHANGED window_parameters
       \/ /\ ret' = [ret EXCEPT !.val.coefficients[0] = 0]
          /\ UNCHANGED window_parameters
       \/ \E v \in CallerAttenuations :
            /\ ret' = [ret EXCEPT !.val.window_params.atenuacao_banda_rejeicao_db = v]
            /\ window_parameters' =
                   window_params_item_set(window_parameters, call.args.window_name, v)
    /\ UNCHANGED << pc, call, locals, threads, app >>

NextCaller ==
    \/ GetAvailableWindows
    \/ CallerDesignCall
    \/ DesignStep
    \/ CallerModifiesResult
    \/ Return

SpecCaller == Init /\ [][NextCaller]_vars

(***************************************************************************)
(* Properties                                                              *)
(***************************************************************************)
\* the call `op` has ended and its outcome has not been taken yet
Returned(op) == pc = "returned" /\ call.op = op

DesignSucceeded == Returned("design_filter") /\ ret.ok

DesignRaised == Returned("design_filter") /\ ~ret.ok

\* == on two floats: a NaN is equal to nothing, itself included
FEq(a, b) == a # NaN /\ b # NaN /\ a = b

Positive(a) == RGt(a, R(0))

\* a sequence of N reals is even-symmetric about (N - 1) / 2
EvenSymmetric(h, N) == \A i \in 0..(N - 1) : FEq(h[i], h[N - 1 - i])

OddInRange(N) == N % 2 = 1 /\ 11 <= N /\ N <= 10001

\* C1: whenever calculate_filter_order returns for a catalog window, Fs > 0
\* and a transition width > 0, and whenever design_filter succeeds, the
\* returned order is odd and lies in 11..10001.
C1_OrderOddInRange ==
    /\ (Returned("calculate_filter_order") /\ ret.ok) => OddInRange(ret.val)
    /\ DesignSucceeded => OddInRange(ret.val.order)

\* Hanning at 500 Hz of 8000 Hz: ceil(3.1 * 16) = 50 is even and becomes 51
C1_Witness ==
    /\ Returned("calculate_filter_order")
    /\ call.window_name = "Hanning"
    /\ call.transition_width = R(500)
    /\ call.fs = R(8000)
    /\ ret.ok
    /\ ret.val = 51

\* C2: the coefficients of every successful design of one of the four
\* filter types with a catalog window are even-symmetric:
\* coefficients[i] == coefficients[N-1-i] for all i in [0, N).
C2_CoefficientsEvenSymmetric ==
    (DesignSucceeded /\ call.args.filter_type \in FilterTypes)
        => EvenSymmetric(ret.val.coefficients, ret.val.order)

\* C3: every cutoff frequency calculate_cutoff_frequencies returns for one
\* of the four filter types, Fs > 0 and a transition width > 0 lies
\* strictly inside (0, Fs/2), and the two cutoffs of a band type are in
\* increasing order.
C3_CutoffsInsideNyquist ==
    (/\ Returned("calculate_cutoff_frequencies")
     /\ ret.ok
     /\ call.filter_type \in FilterTypes
     /\ Positive(call.fs)
     /\ Positive(call.transition_width))
        => /\ \A k \in 1..Len(ret.val) :
                Positive(ret.val[k]) /\ RLt(ret.val[k], Half(call.fs))
           /\ Len(ret.val) = 2 => RLt(ret.val[1], ret.val[2])

\* the preconditions of cutoff resolution that a call violates
EdgeAtOrAboveNyquist(c) ==
    \E k \in 1..Len(c.fp_values) : RGe(c.fp_values[k], Half(c.fs))

BandEdgesNonPositiveOrInverted(c) ==
    /\ c.filter_type \in {"Passa-Banda", "Rejeita-Banda"}
    /\ \/ RLe(c.fp_values[1], R(0))
       \/ RLe(c.fp_values[2], R(0))
       \/ RGe(c.fp_values[1], c.fp_values[2])

InsideNyquist(f, fs) == Positive(f) /\ RLt(f, Half(fs))

StopbandEdgeOutside(c) ==
    CASE c.filter_type = "Passa-Baixa" ->
            ~InsideNyquist(RAdd(c.fp_values[1], c.transition_width), c.fs)
      [] c.filter_type = "Passa-Alta" ->
            ~InsideNyquist(RSub(c.fp_values[1], c.transition_width), c.fs)
      [] OTHER ->
            \/ ~InsideNyquist(RSub(c.fp_values[1], c.transition_width), c.fs)
            \/ ~InsideNyquist(RAdd(c.fp_values[2], c.transition_width), c.fs)

\* C4: calculate_cutoff_frequencies raises ValueError, for each of the four
\* filter types, whenever a passband edge is >= Fs/2, a band edge is
\* non-positive or the pair is inverted, or a derived stopband edge
\* (fp + df, fp - df, fp1 - df and fp2 + df) is outside (0, Fs/2).
C4_InvalidSpecificationRejected ==
    (/\ Returned("calculate_cutoff_frequencies")
     /\ call.filter_type \in FilterTypes
     /\ \/ EdgeAtOrAboveNyquist(call)
        \/ BandEdgesNonPositiveOrInverted(call)
        \/ StopbandEdgeOutside(call))
        => ~ret.ok /\ ret.type = "ValueError"

ResultKeys == {"coefficients", "ideal_response", "window", "order",
               "cutoff_frequencies", "frequency_response", "delta_f_norm"}

ArrayLocals == {"h_ideal", "window", "h_windowed"}

\* C5: design_filter returns a complete result or raises; when it raises,
\* no ideal response, window or coefficient array has been computed, and
\* when the cutoff resolution is what fails, no order has been estimated.
C5_AllOrNothingFailFast ==
    /\ DesignSucceeded => ResultKeys \subseteq DOMAIN ret.val
    /\ DesignRaised => DOMAIN locals \cap ArrayLocals = {}
    /\ (DesignRaised /\ ~design_cutoffs(call.args).ok) => DOMAIN locals = {}

\* a design of a catalog window that fails after its cutoffs were resolved
C5_Witness ==
    /\ DesignRaised
    /\ call.args.window_name = "Hamming"
    /\ DOMAIN locals = {"fc_list"}
    /\ ret.type = "ZeroDivisionError"

\* C6: in every successful design, ideal_response, window and coefficients
\* have N = order elements each, and coefficients[i] ==
\* ideal_response[i] * window[i] at every index i.
C6_LengthsAndProduct ==
    DesignSucceeded =>
        /\ DOMAIN ret.val.ideal_response = 0..(ret.val.order - 1)
        /\ DOMAIN ret.val.window = 0..(ret.val.order - 1)
        /\ DOMAIN ret.val.coefficients = 0..(ret.val.order - 1)
        /\ \A i \in 0..(ret.val.order - 1) :
                FEq(ret.val.coefficients[i],
                    FMul(ret.val.ideal_response[i], ret.val.window[i]))

\* the position of a key in the catalog
IndexOf(dict, k) == CHOOSE i \in 1..Len(dict) : dict[i].key = k

\* C7: get_available_windows(r) returns exactly the catalog names whose
\* stopband attenuation is >= r, each once, in catalog order; for r = 60:
\* Blackman, Kaiser(70 dB), Kaiser(90 dB).
C7_AvailableWindows ==
    Returned("get_available_windows") =>
        /\ ret.ok
        /\ \A k \in 1..Len(ret.val) :
                /\ DictHas(window_parameters, ret.val[k])
                /\ RGe(DictGet(window_parameters, ret.val[k]).atenuacao_banda_rejeicao_db,
                       call.required_attenuation)
        /\ \A i \in 1..Len(window_parameters) :
                RGe(window_parameters[i].val.atenuacao_banda_rejeicao_db,
                    call.required_attenuation)
                    => \E k \in 1..Len(ret.val) : ret.val[k] = window_parameters[i].key
        /\ \A j, k \in 1..Len(ret.val) :
                j < k => IndexOf(window_parameters, ret.val[j])
                            < IndexOf(window_parameters, ret.val[k])
        /\ call.required_attenuation = R(60)
                => ret.val = << "Blackman", "Kaiser_beta_6.76", "Kaiser_beta_8.96" >>

\* r = 75 is Blackman's own attenuation: Blackman is still returned
C7_Witness ==
    /\ Returned("get_available_windows")
    /\ call.required_attenuation = R(75)
    /\ ret.val = << "Blackman", "Kaiser_beta_8.96" >>

\* C8: the order of a successful design is calculate_filter_order of the
\* transition width, Fs, window and desired attenuation, its
\* cutoff_frequencies are calculate_cutoff_frequencies' list in Hz, and
\* delta_f_norm is transition_width / fs; low-pass, Fs = 8000, fp = 1500,
\* df = 500, Hamming gives order 53 and cutoffs [1750].
C8_ResultFromSubFunctions ==
    DesignSucceeded =>
        LET a == call.args
        IN  /\ Ok(ret.val.order) =
                    calculate_filter_order(window_parameters, a.transition_width,
                                           a.fs, a.window_name, a.stopband_atten)
            /\ Ok(ret.val.cutoff_frequencies) =
                    calculate_cutoff_frequencies(a.filter_type, a.fp_values,
                                                 a.transition_width, a.fs)
            /\ RMul(ret.val.delta_f_norm, a.fs) = a.transition_width
            /\ (/\ a.filter_type = "Passa-Baixa"
                /\ a.fp_values = << R(1500) >>
                /\ a.transition_width = R(500)
                /\ a.window_name = "Hamming")
                    => /\ ret.val.order = 53
                       /\ ret.val.cutoff_frequencies = << R(1750) >>
                       /\ ret.val.delta_f_norm = Rat(1, 16)

\* a Kaiser design with a desired attenuation other than the catalog's
C8_Witness ==
    /\ DesignSucceeded
    /\ call.args.window_name = "Kaiser_beta_6.76"
    /\ call.args.stopband_atten = R(5)
    /\ call.args.filter_type = "Passa-Alta"
    /\ ret.val.order = 11
    /\ ret.val.cutoff_frequencies = << R(1250) >>

\* the raw order of a calculate_filter_order call, forced odd
OddRawOrder(c) ==
    ForceOdd(RawOrder(c.window_name, DictGet(window_parameters, c.window_name),
                      RDiv(c.transition_width, c.fs), c.stopband_atten).val)

\* C9: calculate_filter_order clamps and never rejects: for a catalog
\* window, Fs > 0 and a transition width > 0 it returns 10001 when the
\* odd-forced raw order exceeds 10001, 11 when it is below 11 (zero and
\* negative ones included), and the odd-forced raw order otherwise.
C9_OrderClamped ==
    (/\ Returned("calculate_filter_order")
     /\ call.window_name \in CatalogNames
     /\ Positive(call.fs)
     /\ Positive(call.transition_width))
        => /\ ret.ok
           /\ OddRawOrder(call) > 10001 => ret.val = 10001
           /\ OddRawOrder(call) < 11 => ret.val = 11
           /\ (11 <= OddRawOrder(call) /\ OddRawOrder(call) <= 10001)
                    => ret.val = OddRawOrder(call)

\* Kaiser with 5 dB: (5 - 8) / (...) is negative, the order returned is 11
C9_Witness ==
    /\ Returned("calculate_filter_order")
    /\ call.window_name = "Kaiser_beta_4.54"
    /\ call.stopband_atten = R(5)
    /\ Positive(call.transition_width)
    /\ OddRawOrder(call) < 0
    /\ ret.ok
    /\ ret.val = 11

\* C10: create_window and design_filter, given a window name outside the
\* catalog, fail with create_window's ValueError and with nothing else.
C10_UnsupportedWindowError ==
    /\ (Returned("create_window") /\ ~DictHas(window_parameters, call.window_name))
            => ~ret.ok /\ ret.type = "ValueError" /\ ret.msg = "Janela nao suportada"
    /\ (Returned("design_filter")
            /\ ~DictHas(window_parameters, call.args.window_name))
            => ~ret.ok /\ ret.type = "ValueError" /\ ret.msg = "Janela nao suportada"

CutoffRaised == ~ret.ok /\ ret.type = "ValueError"

\* a returned calculate_cutoff_frequencies call of filter type ft
ReturnedCutoffs(ft) ==
    Returned("calculate_cutoff_frequencies") /\ call.filter_type = ft

\* the midpoint of a and b
Midpoint(a, b) == RDiv(RAdd(a, b), R(2))

\* C15: for Passa-Baixa, calculate_cutoff_frequencies raises exactly when
\* fp >= Fs/2 and otherwise returns the one cutoff (fp + (fp + df)) / 2;
\* fp = 4500, df = 100, Fs = 8000 is rejected, fp = 1500, df = 500 gives
\* [1750].
C15_LowpassCutoff ==
    ReturnedCutoffs("Passa-Baixa") =>
        LET fp == call.fp_values[1]
            df == call.transition_width
        IN  /\ RGe(fp, RDiv(call.fs, R(2))) => CutoffRaised
            /\ RLt(fp, RDiv(call.fs, R(2)))
                    => ret.ok /\ ret.val = << Midpoint(fp, RAdd(fp, df)) >>
            /\ (fp = R(4500) /\ df = R(100) /\ call.fs = R(8000)) => CutoffRaised
            /\ (fp = R(1500) /\ df = R(500) /\ call.fs = R(8000))
                    => ret.ok /\ ret.val = << R(1750) >>

\* the example that is rejected
C15_Witness ==
    /\ ReturnedCutoffs("Passa-Baixa")
    /\ call.fp_values = << R(4500) >>
    /\ call.transition_width = R(100)
    /\ call.fs = R(8000)
    /\ CutoffRaised

\* C16: for Passa-Alta, calculate_cutoff_frequencies raises exactly when
\* fp >= Fs/2 or fp - df <= 0 and otherwise returns the one cutoff
\* ((fp - df) + fp) / 2.
C16_HighpassCutoff ==
    ReturnedCutoffs("Passa-Alta") =>
        LET fp == call.fp_values[1]
            df == call.transition_width
            rejected == RGe(fp, RDiv(call.fs, R(2))) \/ RLe(RSub(fp, df), R(0))
        IN  /\ rejected => CutoffRaised
            /\ ~rejected => ret.ok /\ ret.val = << Midpoint(RSub(fp, df), fp) >>

\* fp - df is exactly 0: rejected
C16_Witness ==
    /\ ReturnedCutoffs("Passa-Alta")
    /\ call.fp_values = << R(500) >>
    /\ call.transition_width = R(500)
    /\ call.fs = R(8000)
    /\ CutoffRaised

\* the other two-edge filter type
OtherBandType(ft) == IF ft = "Passa-Banda" THEN "Rejeita-Banda" ELSE "Passa-Banda"

\* C17: Passa-Banda and Rejeita-Banda raise exactly when fp1 >= fp2,
\* fp2 >= Fs/2, fp1 <= 0, fp1 - df <= 0 or fp2 + df >= Fs/2, otherwise both
\* return [((fp1 - df) + fp1)/2, (fp2 + (fp2 + df))/2], and each gives what
\* the other gives on the same arguments; Fs = 8000, (1000, 2000), df = 200
\* gives [900, 2100].
C17_BandCutoffs ==
    (ReturnedCutoffs("Passa-Banda") \/ ReturnedCutoffs("Rejeita-Banda")) =>
        LET fp1 == call.fp_values[1]
            fp2 == call.fp_values[2]
            df == call.transition_width
            nyquist == RDiv(call.fs, R(2))
            rejected == \/ RGe(fp1, fp2)
                        \/ RGe(fp2, nyquist)
                        \/ RLe(fp1, R(0))
                        \/ RLe(RSub(fp1, df), R(0))
                        \/ RGe(RAdd(fp2, df), nyquist)
            other == calculate_cutoff_frequencies(OtherBandType(call.filter_type),
                                                  call.fp_values, df, call.fs)
        IN  /\ rejected => CutoffRaised
            /\ ~rejected => /\ ret.ok
                            /\ ret.val = << Midpoint(RSub(fp1, df), fp1),
                                            Midpoint(fp2, RAdd(fp2, df)) >>
            /\ other.ok = ret.ok
            /\ ret.ok => other.val = ret.val
            /\ ~ret.ok => other.type = ret.type
            /\ (call.fp_values = << R(1000), R(2000) >> /\ df = R(200)
                    /\ call.fs = R(8000))
                    => ret.ok /\ ret.val = << R(900), R(2100) >>

\* the band-stop call of the example
C17_Witness ==
    /\ ReturnedCutoffs("Rejeita-Banda")
    /\ call.fp_values = << R(1000), R(2000) >>
    /\ call.transition_width = R(200)
    /\ call.fs = R(8000)
    /\ ret.ok
    /\ ret.val = << R(900), R(2100) >>

\* N_raw made odd, then limited to 11..10001
OddLimited(N_raw) ==
    LET odd == IF N_raw % 2 = 0 THEN N_raw + 1 ELSE N_raw
    IN  IF odd < 11 THEN 11 ELSE IF odd > 10001 THEN 10001 ELSE odd

\* ceil(factor / (df / Fs)) for the catalog window named
FactorOrder(window_name, transition_width, fs) ==
    RCeil(RDiv(DictGet(window_parameters, window_name).largura_transicao_normalizada,
               RDiv(transition_width, fs)))

NonKaiserNames == CatalogNames \ {"Kaiser_beta_4.54", "Kaiser_beta_6.76", "Kaiser_beta_8.96"}

\* C18: for a non-Kaiser catalog window calculate_filter_order returns
\* ceil(factor / (df / Fs)), plus 1 when even, limited to 11..10001,
\* whatever the attenuation argument, and design_filter's order is that
\* number whatever the filter type and edges; Hamming, df = 500, Fs = 8000
\* gives 53.
C18_NonKaiserOrder ==
    /\ (/\ Returned("calculate_filter_order")
        /\ call.window_name \in NonKaiserNames
        /\ Positive(call.fs)
        /\ Positive(call.transition_width))
            => /\ ret.ok
               /\ ret.val = OddLimited(FactorOrder(call.window_name,
                                                   call.transition_width, call.fs))
               /\ (call.window_name = "Hamming" /\ call.transition_width = R(500)
                        /\ call.fs = R(8000)) => ret.val = 53
    /\ (DesignSucceeded /\ call.args.window_name \in NonKaiserNames)
            => ret.val.order = OddLimited(FactorOrder(call.args.window_name,
                                                      call.args.transition_width,
                                                      call.args.fs))

\* Hamming with an attenuation argument of 60 dB: still 53
C18_Witness ==
    /\ Returned("calculate_filter_order")
    /\ call.window_name = "Hamming"
    /\ call.transition_width = R(500)
    /\ call.fs = R(8000)
    /\ call.stopband_atten = R(60)
    /\ ret.ok
    /\ ret.val = 53

\* ceil((A - 8) / (2.285 * 2 pi * df / Fs))
KaiserOrder(A, transition_width, fs) ==
    RCeil(RDiv(RSub(A, R(8)),
               RMul(RMul(Rat(2285, 1000), RMul(R(2), Pi)), RDiv(transition_width, fs))))

\* C19: for a Kaiser catalog window calculate_filter_order computes
\* N_raw = ceil((A' - 8) / (2.285 * 2 pi * df / Fs)), A' being the supplied
\* attenuation whenever one is supplied, whatever its value, and the
\* catalog attenuation only when none is supplied; Kaiser(4.54), df = 500,
\* Fs = 8000, none supplied gives 47.
C19_KaiserOrder ==
    (/\ Returned("calculate_filter_order")
     /\ call.window_name \in CatalogNames \ NonKaiserNames
     /\ Positive(call.fs)
     /\ Positive(call.transition_width))
        => LET A == IF IsNone(call.stopband_atten)
                    THEN DictGet(window_parameters, call.window_name).atenuacao_banda_rejeicao_db
                    ELSE call.stopband_atten
           IN  /\ ret.ok
               /\ ret.val = OddLimited(KaiserOrder(A, call.transition_width, call.fs))
               /\ (call.window_name = "Kaiser_beta_4.54" /\ IsNone(call.stopband_atten)
                        /\ call.transition_width = R(500) /\ call.fs = R(8000))
                        => ret.val = 47

IdealOps == {"ideal_lowpass", "ideal_highpass", "ideal_bandpass", "ideal_bandstop"}

\* the analytic limit of the ideal response at the centre of symmetry
CenterLimit(c) ==
    CASE c.op = "ideal_lowpass" -> RMul(R(2), c.fc_norm)
      [] c.op = "ideal_highpass" -> RSub(R(1), c.fc_norm)
      [] c.op = "ideal_bandpass" -> RSub(c.fc2_norm, c.fc1_norm)
      [] c.op = "ideal_bandstop" -> RSub(R(1), RSub(c.fc2_norm, c.fc1_norm))

\* C14: for every odd N in 11..10001 and each of the four synthesizers,
\* the index (N-1)/2 and no other takes the limit branch, and the centre
\* tap is the analytic limit: 2 fc, 1 - fc, fc2 - fc1, 1 - (fc2 - fc1).
C14_CenterTap ==
    (/\ pc = "returned"
     /\ call.op \in IdealOps
     /\ call.N % 2 = 1
     /\ 11 <= call.N
     /\ call.N <= 10001)
        => /\ ret.ok
           /\ \A i \in 0..(call.N - 1) :
                IsCenter(Centered(call.N, i)) <=> (2 * i = call.N - 1)
           /\ ret.val[(call.N - 1) \div 2] = Float(CenterLimit(call))
           /\ IsFinite(ret.val[(call.N - 1) \div 2])

\* a band-stop response of 10001 taps: its centre tap 5000 is 1 - 5/16
C14_Witness ==
    /\ Returned("ideal_bandstop")
    /\ call.N = 10001
    /\ call.fc1_norm = Rat(1, 8)
    /\ call.fc2_norm = Rat(7, 16)
    /\ ret.val[5000] = Float(Rat(11, 16))

\* what the call c gives when it is the only call the calculator serves
Alone(c) ==
    IF c.op = "get_available_windows"
    THEN Ok(get_available_windows(Catalog, c.required_attenuation))
    ELSE design_filter(Catalog, c.args)

\* C11: however the statements of the threads' design_filter and
\* get_available_windows calls interleave, each call ends with the result,
\* or the error, it gives when run alone.
C11_InterleavingKeepsResults ==
    \A t \in Threads :
        threads[t].pc = "returned" => threads[t].ret = Alone(threads[t].call)

\* thread 2 queried the catalog and returned while thread 1 was inside a
\* Kaiser design with a desired attenuation, which then returned as well
C11_Witness ==
    /\ threads[1].pc = "returned"
    /\ threads[1].call.op = "design_filter"
    /\ threads[1].call.args.stopband_atten = R(60)
    /\ threads[1].ret.ok
    /\ threads[2].pc = "returned"
    /\ threads[2].call.op = "get_available_windows"
    /\ threads[2].call.required_attenuation = R(60)
    /\ threads[2].ret.val = << "Blackman", "Kaiser_beta_6.76", "Kaiser_beta_8.96" >>

\* C12: whatever calls have been made, returned or raised, the catalog is
\* the catalog __init__ built (window_parameters is the calculator's only
\* attribute).
C12_CatalogNeverChanges == window_parameters = Catalog

\* after a query that excludes five windows, and after a call that raised
C12_Witness ==
    /\ window_parameters = Catalog
    /\ \/ /\ Returned("get_available_windows")
          /\ Len(ret.val) < Len(window_parameters)
       \/ DesignRaised

DesignPcs == {"cutoffs", "order", "ideal", "window", "multiply", "freqz"}

\* the position of a call in design_filter, in the order of its lines
PcRank(p) ==
    CASE p = "cutoffs" -> 1 [] p = "order" -> 2 [] p = "ideal" -> 3
      [] p = "window" -> 4 [] p = "multiply" -> 5 [] p = "freqz" -> 6
      [] OTHER -> 7

\* C13: a design_filter call that has been entered eventually finishes, by
\* returning or by raising; every statement it runs leaves it further on in
\* design_filter (none is run again, none is waited for), and every array it
\* has built has N = order <= 10001 elements, one per loop iteration.
C13_DesignTerminates ==
    /\ [](pc \in DesignPcs => <>(pc = "returned"))
    /\ [][(pc \in DesignPcs) => (PcRank(pc') > PcRank(pc))]_vars
    /\ [](\A x \in ArrayLocals \cap DOMAIN locals :
              /\ locals.order <= MaxOrder
              /\ DOMAIN locals[x] = 0..(locals.order - 1))

\* a design of the greatest length, 10001 taps, has returned
C13_Witness ==
    /\ DesignSucceeded
    /\ ret.val.order = 10001
    /\ DOMAIN ret.val.coefficients = 0..10000

\* the two calls differ in the desired attenuation and in nothing else
DifferOnlyInAttenuation(a, b) ==
    /\ a.stopband_atten # b.stopband_atten
    /\ [a EXCEPT !.stopband_atten = b.stopband_atten] = b

ThreadDesigned(t) ==
    /\ threads[t].pc = "returned"
    /\ threads[t].call.op = "design_filter"
    /\ threads[t].ret.ok

\* C20: two Kaiser designs that differ only in the desired attenuation and
\* come to the same order have the same window sequence.
C20_AttenuationOnlyThroughOrder ==
    \A t1, t2 \in Threads :
        (/\ ThreadDesigned(t1)
         /\ ThreadDesigned(t2)
         /\ HasKaiser(threads[t1].call.args.window_name)
         /\ DifferOnlyInAttenuation(threads[t1].call.args, threads[t2].call.args)
         /\ threads[t1].ret.val.order = threads[t2].ret.val.order)
            => threads[t1].ret.val.window = threads[t2].ret.val.window

\* Kaiser(4.54) designed with no attenuation and with 60 dB, both of order 11
C20_Witness ==
    /\ ThreadDesigned(1)
    /\ ThreadDesigned(2)
    /\ threads[1].call.args.window_name = "Kaiser_beta_4.54"
    /\ DifferOnlyInAttenuation(threads[1].call.args, threads[2].call.args)
    /\ IsNone(threads[1].call.args.stopband_atten)
    /\ threads[2].call.args.stopband_atten = R(60)
    /\ threads[1].ret.val.order = 11
    /\ threads[2].ret.val.order = 11
    /\ threads[1].ret.val.window = threads[2].ret.val.window

\* the all-pass term: 1 at the centre tap, sin(pi k) / (pi k) elsewhere
AllPassTap(N, i) ==
    Val1(LAMBDA n_centered :
            IF IsCenter(n_centered) THEN Float(R(1))
            ELSE Val1(LAMBDA pin : FDivR(Sin(pin), pin), RMul(Pi, n_centered)),
         Centered(N, i))

\* h is, tap by tap, the all-pass term minus g
AllPassMinus(h, g, N) ==
    \A i \in 0..(N - 1) : FEq(h[i], FSub(AllPassTap(N, i), g[i]))

\* C21: ideal_highpass(N, fc)[i] equals, at every tap i, the all-pass term
\* minus ideal_lowpass(N, fc)[i].
C21_HighpassIsAllpassMinusLowpass ==
    Returned("ideal_highpass") =>
        AllPassMinus(ret.val, ideal_lowpass(call.N, call.fc_norm), call.N)

\* two finite reals differ by no more than the rounding of the operations
\* that lead to them (two units of the last place kept)
WithinRounding(a, b) == IsFinite(a) /\ IsFinite(b) /\ Abs(a - b) <= 2

BandstopCase ==
    /\ Returned("ideal_bandstop")
    /\ RLt(call.fc1_norm, call.fc2_norm)

C23_NoDivisionByZero ==
    (/\ DesignSucceeded
     /\ call.args.filter_type \in FilterTypes
     /\ Positive(call.args.fs)
     /\ Positive(call.args.transition_width))
        => \A i \in 0..(ret.val.order - 1) :
                /\ IsFinite(ret.val.ideal_response[i])
                /\ IsFinite(ret.val.coefficients[i])

\* the entries of the catalog whose name passes the Kaiser test
KaiserEntries(dict) == {i \in 1..Len(dict) : HasKaiser(dict[i].key)}

\* C24: an entry of the catalog has a beta exactly when its name contains
\* 'Kaiser'; the Kaiser entries are three, with (attenuation, beta) =
\* (50, 4.54), (70, 6.76), (90, 8.96), and they are the entries without a
\* main-lobe-to-side-lobe figure; calculate_filter_order and create_window
\* called with a catalog name never raise KeyError('beta').
C24_KaiserEntriesHaveBeta ==
    /\ \A i \in 1..Len(window_parameters) :
          /\ ("beta" \in DOMAIN window_parameters[i].val)
                <=> HasKaiser(window_parameters[i].key)
          /\ IsNone(window_parameters[i].val.lobulo_principal_lateral_db)
                <=> HasKaiser(window_parameters[i].key)
    /\ Cardinality(KaiserEntries(window_parameters)) = 3
    /\ {<< window_parameters[i].val.atenuacao_banda_rejeicao_db,
           window_parameters[i].val.beta >> : i \in KaiserEntries(window_parameters)}
            = {<< R(50), Rat(454, 100) >>, << R(70), Rat(676, 100) >>,
               << R(90), Rat(896, 100) >>}
    /\ (/\ pc = "returned"
        /\ call.op \in {"calculate_filter_order", "create_window"}
        /\ DictHas(window_parameters, call.window_name))
            => ret # Raise("KeyError", "beta")

\* create_window built the window of a Kaiser entry after an earlier call
C24_Witness ==
    /\ Returned("create_window")
    /\ call.window_name = "Kaiser_beta_6.76"
    /\ call.order = 53
    /\ ret.ok
    /\ DOMAIN ret.val = 0..52

\* the handler that ran last called calculator.design_filter
CalculatorCalled == app.calculator_call.op = "design_filter"

\* C25: after any sequence of edits of the attenuation field, verifications,
\* selections and presses of 'design', whenever FilterDesignApp.design_filter
\* calls calculator.design_filter, the catalog gives the window it passes a
\* stopband attenuation of at least the attenuation it passes.
C25_DesignedWindowMeetsAttenuation ==
    CalculatorCalled =>
        RGe(DictGet(window_parameters, app.calculator_call.args.window_name)
                .atenuacao_banda_rejeicao_db,
            app.calculator_call.args.stopband_atten)

\* the message boxes that report an error
ErrorBoxes == {"showerror Erro", "showerror Erro de Entrada"}

\* C26: whenever the design action ends by showing an error message (an
\* exception while collecting, designing, plotting or building the report),
\* current_results and the state of the export button are what they were
\* before the action.
C26_FailedDesignChangesNothing ==
    [][(app'.handler = "design_filter" /\ app'.messagebox \in ErrorBoxes /\ PressDesign)
        => /\ app'.current_results = app.current_results
           /\ app'.export_button = app.export_button]_vars

\* C27: the export button is enabled only when current_results is not None:
\* it starts disabled, and it becomes enabled only at the end of a design
\* action that succeeded.
C27_ExportNeedsResults ==
    /\ app.export_button = "disabled"
    /\ [](app.export_button = "normal" => app.current_results # None)
    /\ [][(app.export_button = "disabled" /\ app'.export_button = "normal")
            => /\ PressDesign
               /\ app'.messagebox = "showinfo Sucesso"
               /\ app'.current_results # None
               /\ app'.calculator_call.op = "design_filter"]_vars

\* the first successful design, just made: the export button is now enabled
C27_Witness ==
    /\ app.handler = "design_filter"
    /\ app.messagebox = "showinfo Sucesso"
    /\ app.export_button = "normal"
    /\ app.current_results # None
    /\ app.current_results.order = 53

\* C28: the 'design' button is enabled only when selected_window_var is not
\* empty: it starts disabled, only on_window_selected with a selection that
\* is not empty enables it, and the selection is never cleared afterwards.
C28_DesignNeedsSelection ==
    /\ app.calc_button = "disabled"
    /\ [](app.calc_button = "normal" => app.selected_window_var # "")
    /\ [][(app.calc_button = "disabled" /\ app'.calc_button = "normal")
            => /\ OnWindowSelected
               /\ app'.handler = "on_window_selected"
               /\ app'.selected_window_var # ""]_vars
    /\ [][app.selected_window_var # "" => app'.selected_window_var # ""]_vars

\* a window was selected, and a later verification found no window at all:
\* the combobox is gone, the selection and the enabled button remain
C28_Witness ==
    /\ app.handler = "check_available_windows"
    /\ app.messagebox = "showwarning Aviso"
    /\ app.window_combo = << >>
    /\ app.selected_window_var = "Hamming"
    /\ app.calc_button = "normal"

\* a specification as collect_filter_specifications is meant to let through
Validated(args) ==
    /\ Positive(args.fs)
    /\ Positive(args.transition_width)
    /\ Positive(args.stopband_atten)
    /\ args.window_name # ""
    /\ \A i \in 1..Len(args.fp_values) : Positive(args.fp_values[i])

\* C29: the GUI calls calculator.design_filter only with a validated
\* specification: Fs > 0, transition width > 0, attenuation > 0, a window
\* name that is not empty and every passband edge > 0; otherwise the
\* collection raises and the calculator is not called.
C29_CalculatorGetsValidatedSpecs ==
    /\ CalculatorCalled => Validated(app.calculator_call.args)
    /\ (app.handler = "design_filter" /\ ~CalculatorCalled)
            => app.messagebox = "showerror Erro de Entrada"

\* C30: a result returned by design_filter shares no mutable structure with
\* the calculator: storing into any field of a returned result, its
\* window_params included, changes neither the catalog window_parameters nor
\* the outcome of any later get_available_windows or design_filter call.
C30_ResultSharesNothing ==
    /\ [](window_parameters = Catalog)
    /\ [][CallerModifiesResult => window_parameters' = window_parameters]_vars
    /\ [](Returned("get_available_windows")
            => ret = Ok(get_available_windows(Catalog, call.required_attenuation)))
    /\ [][DesignReturn => ret' = design_filter(Catalog, call.args)]_vars

====
